---- MODULE Spec2Model ----
(***************************************************************************)
(* A model of the SDK generator (sdkGenerator.js) behind the chatbot       *)
(* extension: the markdown code extractor, the filename generator, the     *)
(* bounded workspace scanner, the prompt budget assembler and the          *)
(* orchestrator createSdkUtilFile; and of the chat panel (extension.js)    *)
(* that calls it: the webview script and the host's message handler.       *)
(*                                                                         *)
(* Strings the code takes apart (regular expressions, toLowerCase, trim,   *)
(* path.extname) are sequences: of characters for names and languages, of  *)
(* tokens for markdown, of dot-separated segments for file names.  Strings *)
(* the code only builds are sequences of fragments.  The emoji that lead   *)
(* the user-facing messages are left out of the fragments.                 *)
(***************************************************************************)
EXTENDS Integers, Sequences, FiniteSets, TLC

VARIABLES
    fn,      \* one call of generateFilename
    md,      \* one call of extractCodeFromMarkdown
    scan,    \* one call of scanWorkspace: the tree, the accumulator, the call stack
    asm,     \* the prompt-assembly loop of one call of getIntegrationInstructions
    runs,    \* the calls of createSdkUtilFile in flight, each with its position
    host,    \* the editor host: the open workspace folder, its utils directory and files
    panel    \* the chat panel: the webview, the messages in flight, the host's handlers

vars == <<fn, md, scan, asm, runs, host, panel>>

(***************************************************************************)
(* Bounds of the model.                                                    *)
(***************************************************************************)
MaxNameLen == 3
MaxSegments == 3
MaxFill == 50
MaxAsmFiles == 3
NumRuns == 1
MaxSends == 2

(***************************************************************************)
(* Generic helpers.                                                        *)
(***************************************************************************)
BoundedSeq(S, n) == UNION {[1..k -> S] : k \in 0..n}

RECURSIVE Str(_)
\* The string a sequence of characters or fragments spells.
Str(s) == IF s = <<>> THEN "" ELSE Head(s) \o Str(Tail(s))

RECURSIVE Flatten(_)
Flatten(ss) == IF ss = <<>> THEN <<>> ELSE Head(ss) \o Flatten(Tail(ss))

Idle == [pc |-> "idle"]

(***************************************************************************)
(* String.prototype.toLowerCase, character by character.                   *)
(***************************************************************************)
UpperCase == <<"A", "B", "C", "D", "E", "F", "G", "H", "I", "J", "K", "L", "M",
               "N", "O", "P", "Q", "R", "S", "T", "U", "V", "W", "X", "Y", "Z">>
LowerCase == <<"a", "b", "c", "d", "e", "f", "g", "h", "i", "j", "k", "l", "m",
               "n", "o", "p", "q", "r", "s", "t", "u", "v", "w", "x", "y", "z">>

LowerChar(c) ==
    IF \E k \in DOMAIN UpperCase : UpperCase[k] = c
    THEN LowerCase[CHOOSE k \in DOMAIN UpperCase : UpperCase[k] = c]
    ELSE c

ToLowerCase(s) == [i \in 1..Len(s) |-> LowerChar(s[i])]

\* The characters the regular expression class \s matches (those the model uses).
IsWhitespace(c) == c \in {" ", "\t", "\n", "\r", "\f"}

(***************************************************************************)
(* generateFilename (lines 170-189).                                       *)
(***************************************************************************)
\* .replace(/-/g, '_')
ReplaceHyphens(s) == [i \in 1..Len(s) |-> IF s[i] = "-" THEN "_" ELSE s[i]]

RECURSIVE SkipWhitespace(_)
SkipWhitespace(s) ==
    IF s # <<>> /\ IsWhitespace(Head(s)) THEN SkipWhitespace(Tail(s)) ELSE s

RECURSIVE ReplaceWhitespaceRuns(_)
\* .replace(/\s+/g, '_'): every maximal run of whitespace becomes one underscore.
ReplaceWhitespaceRuns(s) ==
    IF s = <<>> THEN <<>>
    ELSE IF IsWhitespace(Head(s))
         THEN <<"_">> \o ReplaceWhitespaceRuns(SkipWhitespace(s))
         ELSE <<Head(s)>> \o ReplaceWhitespaceRuns(Tail(s))

NormalizeSdkName(sdkName) ==
    ReplaceWhitespaceRuns(ReplaceHyphens(ToLowerCase(sdkName)))

\* The own properties of the object literal extensions.
\* A dot is a fragment of its own, so that a file name can be split on it.
extensions ==
    [python |-> <<".", "py">>, javascript |-> <<".", "js">>,
     typescript |-> <<".", "ts">>, java |-> <<".", "java">>,
     go |-> <<".", "go">>, rust |-> <<".", "rs">>]

\* The methods an object literal inherits from Object.prototype, with the name
\* each function prints under String().
ObjectPrototypeMethods ==
    [constructor |-> "Object", hasOwnProperty |-> "hasOwnProperty",
     isPrototypeOf |-> "isPrototypeOf",
     propertyIsEnumerable |-> "propertyIsEnumerable",
     toLocaleString |-> "toLocaleString", toString |-> "toString",
     valueOf |-> "valueOf", __defineGetter__ |-> "__defineGetter__",
     __defineSetter__ |-> "__defineSetter__",
     __lookupGetter__ |-> "__lookupGetter__",
     __lookupSetter__ |-> "__lookupSetter__"]

\* extensions[key]: an own property, else what the prototype chain gives.
\* The value is kept as the string a template literal prints for it, with its
\* truthiness.
GetExtension(key) ==
    IF key \in DOMAIN extensions
    THEN [truthy |-> TRUE, text |-> extensions[key]]
    ELSE IF key \in DOMAIN ObjectPrototypeMethods
    THEN [truthy |-> TRUE,
          text |-> <<"function " \o ObjectPrototypeMethods[key]
                        \o "() { [native code] }">>]
    ELSE IF key = "__proto__"
    THEN [truthy |-> TRUE, text |-> <<"[object Object]">>]
    ELSE [truthy |-> FALSE, text |-> <<"undefined">>]

\* extensions[language.toLowerCase()] || '.txt'
ExtensionFor(language) ==
    LET found == GetExtension(Str(ToLowerCase(language)))
    IN  IF found.truthy THEN found.text ELSE <<".", "txt">>

\* The file name, as the fragments the template literal of line 188 joins.
generateFilename(sdkName, language) ==
    NormalizeSdkName(sdkName) \o <<"_util">> \o ExtensionFor(language)

(***************************************************************************)
(* extractCodeFromMarkdown (lines 143-162).  Content is a sequence of      *)
(* tokens: the fence of three backticks, the newline, a language word, a   *)
(* blank, or a piece of other text.                                        *)
(***************************************************************************)
\* The fence stands for the three backticks.
Fence == "FENCE"
NL == "\n"

StartsWithAt(s, i, prefix) ==
    /\ i + Len(prefix) - 1 <= Len(s)
    /\ \A k \in 1..Len(prefix) : s[i + k - 1] = prefix[k]

\* Whether the pattern  opener ([\s\S]*?) fence  matches at position i.
MatchesAt(s, i, opener) ==
    /\ StartsWithAt(s, i, opener)
    /\ \E j \in (i + Len(opener))..Len(s) : s[j] = Fence

\* matchAll(...)[0]: the leftmost match; its group 1 is the shortest text up
\* to the next fence.
FirstMatch(s, opener) ==
    IF \E i \in 1..Len(s) : MatchesAt(s, i, opener)
    THEN LET i == CHOOSE i \in 1..Len(s) :
                    /\ MatchesAt(s, i, opener)
                    /\ \A h \in 1..(i - 1) : ~MatchesAt(s, h, opener)
             from == i + Len(opener)
             j == CHOOSE j \in from..Len(s) :
                    /\ s[j] = Fence
                    /\ \A h \in from..(j - 1) : s[h] # Fence
         IN  [found |-> TRUE, group |-> SubSeq(s, from, j - 1)]
    ELSE [found |-> FALSE, group |-> <<>>]

RECURSIVE TrimEnd(_)
TrimEnd(s) ==
    IF s # <<>> /\ IsWhitespace(s[Len(s)]) THEN TrimEnd(SubSeq(s, 1, Len(s) - 1)) ELSE s

\* String.prototype.trim
Trim(s) == TrimEnd(SkipWhitespace(s))

extractCodeFromMarkdown(content, language) ==
    LET tagged == FirstMatch(content, <<Fence, language, NL>>)
        generic == FirstMatch(content, <<Fence, NL>>)
    IN  IF tagged.found THEN Trim(tagged.group)
        ELSE IF generic.found THEN Trim(generic.group)
        ELSE Trim(content)

(***************************************************************************)
(* The inputs of the two pure functions.                                   *)
(***************************************************************************)
NameAlphabet == {"S", "g", "-", " ", "\t"}

SendGrid == <<"S", "e", "n", "d", "-", "G", "r", "i", "d">>

SdkNameInputs == BoundedSeq(NameAlphabet, MaxNameLen) \cup {SendGrid}

LanguageInputs ==
    { <<"p", "y", "t", "h", "o", "n">>,
      <<"P", "y", "t", "h", "o", "n">>,
      <<"j", "a", "v", "a", "s", "c", "r", "i", "p", "t">>,
      <<"t", "y", "p", "e", "s", "c", "r", "i", "p", "t">>,
      <<"J", "A", "V", "A">>,
      <<"g", "o">>,
      <<"R", "u", "s", "t">>,
      <<"r", "u", "b", "y">>,
      <<>>,
      <<"p", "y">>,
      <<"t", "o", "S", "t", "r", "i", "n", "g">>,
      <<"c", "o", "n", "s", "t", "r", "u", "c", "t", "o", "r">>,
      <<"_", "_", "p", "r", "o", "t", "o", "_", "_">> }

Block(tag, body) == <<Fence>> \o tag \o <<NL>> \o body \o <<Fence>>

BlockTags == {<<>>, <<"python">>, <<"js">>}
BlockBodies == {<<"a", NL>>, <<NL, " ", "b">>}

ContentSegments ==
    {<<"x">>, <<NL>>} \cup {Block(t, b) : t \in BlockTags, b \in BlockBodies}

ContentInputs == {Flatten(ss) : ss \in BoundedSeq(ContentSegments, MaxSegments)}

MarkdownLanguages == {"python", "js"}

(***************************************************************************)
(* generateFilename as a state machine: one call on drawn inputs.          *)
(***************************************************************************)
FnInit ==
    \E n \in SdkNameInputs, l \in LanguageInputs :
        fn = [pc |-> "called", sdkName |-> n, language |-> l, result |-> <<>>]

FnReturn ==
    /\ fn.pc = "called"
    /\ fn' = [fn EXCEPT !.pc = "returned",
                        !.result = generateFilename(fn.sdkName, fn.language)]
    /\ UNCHANGED <<md, scan, asm, runs, host, panel>>

InitFilename ==
    FnInit /\ md = Idle /\ scan = Idle /\ asm = Idle /\ runs = Idle /\ host = Idle /\ panel = Idle
NextFilename == FnReturn
SpecFilename == InitFilename /\ [][NextFilename]_vars

(***************************************************************************)
(* extractCodeFromMarkdown as a state machine.                             *)
(***************************************************************************)
MdInit ==
    \E c \in ContentInputs, l \in MarkdownLanguages :
        md = [pc |-> "called", content |-> c, language |-> l, result |-> <<>>]

MdReturn ==
    /\ md.pc = "called"
    /\ md' = [md EXCEPT !.pc = "returned",
                        !.result = extractCodeFromMarkdown(md.content, md.language)]
    /\ UNCHANGED <<fn, scan, asm, runs, host, panel>>

InitExtract ==
    MdInit /\ fn = Idle /\ scan = Idle /\ asm = Idle /\ runs = Idle /\ host = Idle /\ panel = Idle
NextExtract == MdReturn
SpecExtract == InitExtract /\ [][NextExtract]_vars

(***************************************************************************)
(* Claims about generateFilename.                                          *)
(***************************************************************************)
RECURSIVE ExpectedNormalized(_, _)
\* One pass over the service name: a hyphen gives an underscore, the first
\* character of a whitespace run gives an underscore and the rest of the run
\* nothing, any other character gives its lower case.
ExpectedNormalized(s, inRun) ==
    IF s = <<>> THEN <<>>
    ELSE IF IsWhitespace(Head(s))
         THEN (IF inRun THEN <<>> ELSE <<"_">>) \o ExpectedNormalized(Tail(s), TRUE)
         ELSE <<IF Head(s) = "-" THEN "_" ELSE LowerChar(Head(s))>>
              \o ExpectedNormalized(Tail(s), FALSE)

TableKeys == {"python", "javascript", "typescript", "java", "go", "rust"}

TableExtension(language) ==
    LET key == Str(ToLowerCase(language))
    IN  IF key \in TableKeys THEN Str(extensions[key]) ELSE ".txt"

ExpectedFilename(sdkName, language) ==
    Str(ExpectedNormalized(sdkName, FALSE)) \o "_util" \o TableExtension(language)

\* C9: generateFilename returns, for every service name and language, the
\* lower-cased name with each hyphen and each whitespace run replaced by one
\* underscore, then "_util", then the table extension, which is ".txt" for
\* every language that is not one of the six table keys after lower-casing.
C9_FilenameAsSpecified ==
    fn.pc = "returned" => Str(fn.result) = ExpectedFilename(fn.sdkName, fn.language)

\* What remains true of the code: the claim holds for every language whose
\* lower case names no property inherited from Object.prototype.
C9_HoldsOffPrototype ==
    (/\ fn.pc = "returned"
     /\ Str(ToLowerCase(fn.language)) \notin
            (DOMAIN ObjectPrototypeMethods \cup {"__proto__"}))
    => Str(fn.result) = ExpectedFilename(fn.sdkName, fn.language)

C9_SendGridExample ==
    (fn.pc = "returned" /\ fn.sdkName = SendGrid
        /\ fn.language = <<"p", "y", "t", "h", "o", "n">>)
    => Str(fn.result) = "send_grid_util.py"

(***************************************************************************)
(* Claims about extractCodeFromMarkdown.  A fenced block is what lies      *)
(* between an opening fence and the fence that closes it: the fences of a  *)
(* text pair up in order, first with second, third with fourth.            *)
(***************************************************************************)
FencePositions(s) == {i \in 1..Len(s) : s[i] = Fence}

\* The k-th fence position, in increasing order.
NthFence(s, k) ==
    CHOOSE i \in FencePositions(s) :
        Cardinality({h \in FencePositions(s) : h <= i}) = k

\* The fenced blocks of a text in order, each with its tag line and its body.
\* The text between a pair of fences that has no newline ending a tag line is
\* an inline span, kept with tag "inline".
FencedBlocks(s) ==
    [k \in 1..(Cardinality(FencePositions(s)) \div 2) |->
        LET inner == SubSeq(s, NthFence(s, 2 * k - 1) + 1, NthFence(s, 2 * k) - 1)
        IN  IF inner # <<>> /\ inner[1] = NL
            THEN [tag |-> "", body |-> Tail(inner)]
            ELSE IF Len(inner) >= 2 /\ inner[2] = NL
            THEN [tag |-> inner[1], body |-> Tail(Tail(inner))]
            ELSE [tag |-> "inline", body |-> inner]]

HasBlock(s, tag) == \E k \in DOMAIN FencedBlocks(s) : FencedBlocks(s)[k].tag = tag

FirstBlock(s, tag) ==
    LET bs == FencedBlocks(s)
        k == CHOOSE k \in DOMAIN bs :
                /\ bs[k].tag = tag
                /\ \A h \in 1..(k - 1) : bs[h].tag # tag
    IN  bs[k]

\* C8: for content that has no block tagged with the requested language but
\* has an untagged fenced block, extractCodeFromMarkdown returns the trimmed
\* inner text of the first untagged block, also when a block tagged with
\* another language comes before it.
C8_FirstUntaggedBlock ==
    (/\ md.pc = "returned"
     /\ ~HasBlock(md.content, md.language)
     /\ HasBlock(md.content, ""))
    => md.result = Trim(FirstBlock(md.content, "").body)

\* What remains true of the code: the claim holds when the untagged block is
\* the first fenced block of the content.
C8_HoldsWhenUntaggedFirst ==
    (/\ md.pc = "returned"
     /\ ~HasBlock(md.content, md.language)
     /\ FencedBlocks(md.content) # <<>>
     /\ FencedBlocks(md.content)[1].tag = "")
    => md.result = Trim(FencedBlocks(md.content)[1].body)

(***************************************************************************)
(* scanWorkspace (lines 225-278).                                          *)
(*                                                                         *)
(* A file or directory name is the sequence of its dot-separated segments: *)
(* <<"main", "py">> is main.py and <<"", "git">> is .git.  A relative path *)
(* is the sequence of its component names.  A tree gives, for each         *)
(* directory, the entries readdir lists in the order it lists them, and    *)
(* the directories whose listing fails.  A file entry carries the size     *)
(* stat reports, the content readFile gives and the call that fails on it. *)
(* A content is a text followed by pad filler characters.                  *)
(***************************************************************************)
excludeDirs ==
    { <<"node_modules">>, <<"", "git">>, <<"venv">>, <<"__pycache__">>,
      <<"", "vscode">>, <<"dist">>, <<"build">> }

includeExtensions ==
    {".py", ".js", ".ts", ".java", ".go", ".rs", ".txt", ".md", ".json", ".yaml", ".yml"}

maxFileSize == 100000
maxFiles == 50

\* path.extname: from the last dot to the end; nothing when the name has no dot
\* or its only dot is its first character.
ExtName(name) ==
    IF Len(name) <= 1 \/ (Len(name) = 2 /\ name[1] = "")
    THEN ""
    ELSE "." \o name[Len(name)]

\* files.length >= maxFiles (lines 233 and 239)
CapReachedOffByOne(files) == Len(files) > maxFiles
CapReached(files) == Len(files) >= maxFiles

\* excludeDirs.includes(entry.name) (line 246)
SkipDirectoryTopLevelOnly(name, path) == path = <<>> /\ name \in excludeDirs
SkipDirectory(name, path) == name \in excludeDirs

\* includeExtensions.includes(ext) (line 252)
IsIncluded(name) == ExtName(name) \in includeExtensions

\* stats.size <= maxFileSize (line 256)
WithinSize(size) == size <= maxFileSize

Top(st) == st.stack[Len(st.stack)]

NewFrame(dir, path) ==
    [dir |-> dir, path |-> path, entries |-> <<>>, idx |-> 0, at |-> "enter"]

\* readDir returns: scanWorkspace returns the list if it was the root call,
\* else the caller's loop goes on with its next entry.
Return(st) ==
    LET rest == SubSeq(st.stack, 1, Len(st.stack) - 1)
    IN  IF rest = <<>>
        THEN [st EXCEPT !.stack = <<>>, !.pc = "returned"]
        ELSE [st EXCEPT !.stack =
                [rest EXCEPT ![Len(rest)] = [@ EXCEPT !.idx = @ + 1, !.at = "loop"]]]

\* The loop goes on with the next entry of the current directory.
Advance(st) ==
    [st EXCEPT !.stack[Len(st.stack)] = [@ EXCEPT !.idx = @ + 1, !.at = "loop"]]

At(st, where) ==
    [st EXCEPT !.stack[Len(st.stack)] = [@ EXCEPT !.at = where]]

\* An error nothing catches: it leaves scanWorkspace.
Raise(st) == [st EXCEPT !.stack = <<>>, !.pc = "raised"]

\* catch (err) of lines 271-273: the listing error is logged, readDir returns.
OnReaddirError(st) == Return(st)

\* catch (err) of lines 264-267: the stat or read error is logged, the file is
\* skipped.  Without the inner try the error would reach the catch of the
\* directory and end its loop.
OnFileErrorEndsDirectory(st) == Return(st)
OnFileError(st) == Advance(st)

\* readDir is called (line 232): the cap check of line 233, then readdir.
EnterStep(st) ==
    IF CapReached(st.files) THEN Return(st) ELSE At(st, "readdir")

\* readdir settles (line 236).
ReaddirStep(st) ==
    LET f == Top(st)
    IN  IF f.dir \in st.tree.unlistable
        THEN OnReaddirError(st)
        ELSE [st EXCEPT !.stack[Len(st.stack)] =
                [f EXCEPT !.entries = st.tree.dirs[f.dir], !.idx = 1, !.at = "loop"]]

\* One turn of the for loop (lines 238-252), up to its first await.
LoopStep(st) ==
    LET f == Top(st)
    IN  IF f.idx > Len(f.entries) THEN Return(st)
        ELSE IF CapReached(st.files) THEN Return(st)
        ELSE LET entry == f.entries[f.idx]
             IN  IF entry.kind = "dir"
                 THEN IF ~SkipDirectory(entry.name, f.path)
                      THEN [st EXCEPT !.stack =
                              Append(@, NewFrame(entry.child, Append(f.path, entry.name)))]
                      ELSE Advance(st)
                 ELSE IF entry.kind = "file" /\ IsIncluded(entry.name)
                 THEN At(st, "stat")
                 ELSE Advance(st)

\* stat settles (lines 254-256).
StatStep(st) ==
    LET f == Top(st)
        entry == f.entries[f.idx]
    IN  IF entry.fault = "stat" THEN OnFileError(st)
        ELSE IF WithinSize(entry.size) THEN At(st, "readFile")
        ELSE Advance(st)

\* readFile settles (lines 257-262).
ReadFileStep(st) ==
    LET f == Top(st)
        entry == f.entries[f.idx]
    IN  IF entry.fault = "read" THEN OnFileError(st)
        ELSE Advance([st EXCEPT !.files =
                Append(@, [path |-> Append(f.path, entry.name),
                           name |-> entry.name,
                           content |-> entry.content])])

\* scanWorkspace is called on a tree (lines 226-232, 276).
ScanCall(tree) ==
    [pc |-> "running", tree |-> tree, files |-> <<>>,
     stack |-> <<NewFrame(tree.root, <<>>)>>]

ScanStep(st) ==
    CASE Top(st).at = "enter" -> EnterStep(st)
      [] Top(st).at = "readdir" -> ReaddirStep(st)
      [] Top(st).at = "loop" -> LoopStep(st)
      [] Top(st).at = "stat" -> StatStep(st)
      [] Top(st).at = "readFile" -> ReadFileStep(st)

RECURSIVE ScanToEnd(_)
ScanToEnd(st) == IF st.pc = "running" THEN ScanToEnd(ScanStep(st)) ELSE st

\* await scanWorkspace(path), as its caller sees it.
scanWorkspace(tree) == ScanToEnd(ScanCall(tree))

(***************************************************************************)
(* The trees scanWorkspace is run on.                                      *)
(***************************************************************************)
NoContent == [text |-> <<>>, pad |-> 0]

FileEntry(name, size, fault) ==
    [name |-> name, kind |-> "file", child |-> 0, size |-> size, fault |-> fault,
     content |-> [text |-> name, pad |-> 0]]

DirEntry(name, child) ==
    [name |-> name, kind |-> "dir", child |-> child, size |-> 0, fault |-> "none",
     content |-> NoContent]

\* A symbolic link, a socket: neither isDirectory() nor isFile().
OtherEntry(name) ==
    [name |-> name, kind |-> "other", child |-> 0, size |-> 0, fault |-> "none",
     content |-> NoContent]

\* n small eligible files f1.py .. fn.py.
Filler(n) == [i \in 1..n |-> FileEntry(<<"f" \o ToString(i), "py">>, 10, "none")]

FillCounts == {0, 2} \cup {n \in (MaxFill - 3)..MaxFill : n >= 0}
FillPlaces == {"first", "last", "deep"}
UnlistableChoices == {{}, {1}, {2}, {5}, {2, 8}}

ScanTree(fill, place, unlistable) ==
    [root |-> 1,
     unlistable |-> unlistable,
     dirs |->
       <<
         \* 1: the workspace root
         (IF place = "first" THEN Filler(fill) ELSE <<>>) \o
         << FileEntry(<<"readme", "md">>, 300, "none"),
            DirEntry(<<"src">>, 2),
            DirEntry(<<"node_modules">>, 3),
            FileEntry(<<"big", "json">>, maxFileSize + 1, "none"),
            FileEntry(<<"photo", "png">>, 20, "none"),
            OtherEntry(<<"link", "py">>),
            FileEntry(<<"APP", "PY">>, 20, "none"),
            FileEntry(<<"", "json">>, 20, "none"),
            FileEntry(<<"gone", "py">>, 20, "stat"),
            FileEntry(<<"locked", "ts">>, 20, "read"),
            DirEntry(<<"builds">>, 8),
            FileEntry(<<"edge", "txt">>, maxFileSize, "none"),
            DirEntry(<<"dist">>, 4) >> \o
         (IF place = "last" THEN Filler(fill) ELSE <<>>),
         \* 2: src
         << FileEntry(<<"main", "py">>, 50, "none"),
            DirEntry(<<"lib">>, 5),
            DirEntry(<<"build">>, 6),
            FileEntry(<<"a", "tar", "gz">>, 50, "none"),
            FileEntry(<<"notes", "yaml">>, 50, "none") >>,
         \* 3: node_modules
         << FileEntry(<<"index", "js">>, 50, "none") >>,
         \* 4: dist
         << FileEntry(<<"bundle", "js">>, 50, "none") >>,
         \* 5: src/lib
         << FileEntry(<<"util", "go">>, 50, "none"),
            DirEntry(<<"", "git">>, 7) >> \o
         (IF place = "deep" THEN Filler(fill) ELSE <<>>) \o
         << FileEntry(<<"mod", "rs">>, 50, "none") >>,
         \* 6: src/build
         << FileEntry(<<"out", "js">>, 50, "none") >>,
         \* 7: src/lib/.git
         << FileEntry(<<"config", "json">>, 50, "none") >>,
         \* 8: builds
         << FileEntry(<<"gen", "java">>, 50, "none"),
            FileEntry(<<"huge", "md">>, maxFileSize + 1, "read") >>
       >>]

ScanTrees ==
    {ScanTree(n, p, u) : n \in FillCounts, p \in FillPlaces, u \in UnlistableChoices}

(***************************************************************************)
(* scanWorkspace as a state machine: one call, one step per await.         *)
(***************************************************************************)
ScanInit == \E t \in ScanTrees : scan = ScanCall(t)

ScanRunning == scan.pc = "running"

ReadDirEnter ==
    /\ ScanRunning /\ Top(scan).at = "enter"
    /\ scan' = EnterStep(scan)
    /\ UNCHANGED <<fn, md, asm, runs, host, panel>>

ReaddirSettles ==
    /\ ScanRunning /\ Top(scan).at = "readdir"
    /\ scan' = ReaddirStep(scan)
    /\ UNCHANGED <<fn, md, asm, runs, host, panel>>

LoopTurn ==
    /\ ScanRunning /\ Top(scan).at = "loop"
    /\ scan' = LoopStep(scan)
    /\ UNCHANGED <<fn, md, asm, runs, host, panel>>

StatSettles ==
    /\ ScanRunning /\ Top(scan).at = "stat"
    /\ scan' = StatStep(scan)
    /\ UNCHANGED <<fn, md, asm, runs, host, panel>>

ReadFileSettles ==
    /\ ScanRunning /\ Top(scan).at = "readFile"
    /\ scan' = ReadFileStep(scan)
    /\ UNCHANGED <<fn, md, asm, runs, host, panel>>

InitScan ==
    ScanInit /\ fn = Idle /\ md = Idle /\ asm = Idle /\ runs = Idle /\ host = Idle /\ panel = Idle
NextScan ==
    \/ ReadDirEnter
    \/ ReaddirSettles
    \/ LoopTurn
    \/ StatSettles
    \/ ReadFileSettles
SpecScan == InitScan /\ [][NextScan]_vars

(***************************************************************************)
(* Claims about scanWorkspace.                                             *)
(***************************************************************************)
RECURSIVE Resolve(_, _, _)
\* The entry of the tree a relative path names, from directory dir.
Resolve(tree, dir, path) ==
    LET entries == tree.dirs[dir]
        i == CHOOSE i \in 1..Len(entries) : entries[i].name = Head(path)
    IN  IF Len(path) = 1 THEN entries[i]
        ELSE Resolve(tree, entries[i].child, Tail(path))

DirectoryComponents(path) == {path[i] : i \in 1..(Len(path) - 1)}

RecordAllowed(tree, rec) ==
    /\ ExtName(rec.name) \in includeExtensions
    /\ rec.name = rec.path[Len(rec.path)]
    /\ Resolve(tree, tree.root, rec.path).kind = "file"
    /\ Resolve(tree, tree.root, rec.path).size <= maxFileSize
    /\ DirectoryComponents(rec.path) \cap excludeDirs = {}

\* C3: at every point of the traversal and on return, every record of the
\* list has an extension of the allow-list, comes from a file whose size at
\* stat time was at most maxFileSize, and has no excluded directory name
\* among the directory components of its relative path, at any depth.
C3_RecordsAllowed ==
    scan.pc # "idle" =>
        \A i \in 1..Len(scan.files) : RecordAllowed(scan.tree, scan.files[i])

\* A returned list holding a file three directories deep, from a tree that has
\* an excluded directory at that depth and an oversized file.
C3_Witness ==
    /\ scan.pc = "returned"
    /\ \E i \in 1..Len(scan.files) : Len(scan.files[i].path) = 3
    /\ \E i \in 1..Len(scan.files) : scan.files[i].name = <<"edge", "txt">>

\* C4: the list never holds more than maxFiles records, and once it holds
\* maxFiles no step of the traversal, in the current directory loop or in any
\* enclosing or later call, appends another.
C4_CapHolds ==
    /\ [](scan.pc # "idle" => Len(scan.files) <= maxFiles)
    /\ [][(scan.pc # "idle" /\ Len(scan.files) >= maxFiles)
            => scan'.files = scan.files]_vars

\* The cap reached inside a nested directory with entries left there and in
\* the enclosing directories.
C4_Witness ==
    /\ scan.pc = "running"
    /\ Len(scan.files) = maxFiles
    /\ Len(scan.stack) = 3
    /\ Top(scan).at = "loop"
    /\ Top(scan).idx <= Len(Top(scan).entries)

RECURSIVE ExpectedRecords(_, _, _)
\* The eligible files of a tree in traversal order: depth first, entries in
\* listing order, leaving out what fails and what lies under a directory that
\* is excluded or cannot be listed.
ExpectedRecords(tree, dir, path) ==
    IF dir \in tree.unlistable THEN <<>>
    ELSE LET entries == tree.dirs[dir]
         IN  Flatten([i \in 1..Len(entries) |->
                LET e == entries[i]
                IN  IF e.kind = "dir" /\ e.name \notin excludeDirs
                    THEN ExpectedRecords(tree, e.child, Append(path, e.name))
                    ELSE IF /\ e.kind = "file"
                            /\ ExtName(e.name) \in includeExtensions
                            /\ e.size <= maxFileSize
                            /\ e.fault = "none"
                    THEN << [path |-> Append(path, e.name), name |-> e.name,
                             content |-> e.content] >>
                    ELSE <<>>])

Take(s, n) == SubSeq(s, 1, IF Len(s) < n THEN Len(s) ELSE n)

\* C5: whatever listing, stat or read fails, scanWorkspace never raises and
\* always completes; it returns, in traversal order and up to maxFiles, every
\* eligible file that does not fail and is not under a failing directory.
C5_FailuresSkipped ==
    /\ scan.pc # "raised"
    /\ scan.pc = "running" => ENABLED NextScan
    /\ scan.pc = "returned" =>
         scan.files = Take(ExpectedRecords(scan.tree, scan.tree.root, <<>>), maxFiles)

\* A scan that met a failing stat, a failing read and a failing listing and
\* still returned files listed after each of them.
C5_Witness ==
    /\ scan.pc = "returned"
    /\ scan.tree.unlistable = {5}
    /\ \E i \in 1..Len(scan.files) : scan.files[i].name = <<"notes", "yaml">>
    /\ \E i \in 1..Len(scan.files) : scan.files[i].name = <<"edge", "txt">>
    /\ Len(scan.files) < maxFiles

(***************************************************************************)
(* The prompt-assembly loop of getIntegrationInstructions (lines 292-309). *)
(* The workspace context is the sequence of the blocks appended to it; a   *)
(* block stands for the text the template literal of line 298 builds from  *)
(* a file's path and content.                                              *)
(***************************************************************************)
MAX_CONTEXT_LENGTH == 50000

RECURSIVE SumLen(_)
\* The summed length of a sequence of strings.
SumLen(ss) == IF ss = <<>> THEN 0 ELSE Len(Head(ss)) + SumLen(Tail(ss))

\* The length of a name: its segments and the dots between them.
NameLength(name) == SumLen(name) + (Len(name) - 1)

RECURSIVE PathLength(_)
\* The length of a relative path: its names and the separators between them.
PathLength(path) ==
    IF path = <<>> THEN 0
    ELSE NameLength(Head(path))
         + (IF Len(path) > 1 THEN 1 + PathLength(Tail(path)) ELSE 0)

ContentLength(content) == SumLen(content.text) + content.pad

\* The three backticks of a fence.
FenceLength == 3

\* fileContext (line 298): "File: " path "\n" fence "\n" content "\n" fence "\n\n"
FormatFileContext(file) ==
    [path |-> file.path, content |-> file.content,
     length |-> Len("File: ") + PathLength(file.path)
                + Len("\n") + FenceLength + Len("\n")
                + ContentLength(file.content)
                + Len("\n") + FenceLength + Len("\n\n")]

RECURSIVE StringLength(_)
\* workspaceContext.length
StringLength(context) ==
    IF context = <<>> THEN 0 ELSE Head(context).length + StringLength(Tail(context))

\* (workspaceContext.length + fileContext.length) < MAX_CONTEXT_LENGTH (line 299)
FitsInclusive(context, fileContext) ==
    StringLength(context) + fileContext.length <= MAX_CONTEXT_LENGTH
Fits(context, fileContext) ==
    StringLength(context) + fileContext.length < MAX_CONTEXT_LENGTH

\* The else branch of lines 302-304: break.
SkipFile(st) == [st EXCEPT !.i = @ + 1]
Break(st) == [st EXCEPT !.pc = "done"]

\* Lines 294-295: the accumulators before the loop.
AssembleCall(workspaceFiles) ==
    [pc |-> "loop", files |-> workspaceFiles, i |-> 1,
     workspaceContext |-> <<>>, includedFiles |-> 0]

\* One turn of the for loop of lines 297-305.
AssembleStep(st) ==
    IF st.i > Len(st.files) THEN [st EXCEPT !.pc = "done"]
    ELSE LET fileContext == FormatFileContext(st.files[st.i])
         IN  IF Fits(st.workspaceContext, fileContext)
             THEN [st EXCEPT !.workspaceContext = Append(@, fileContext),
                             !.includedFiles = @ + 1,
                             !.i = @ + 1]
             ELSE Break(st)

RECURSIVE AssembleToEnd(_)
AssembleToEnd(st) == IF st.pc = "loop" THEN AssembleToEnd(AssembleStep(st)) ELSE st

\* The loop as the rest of getIntegrationInstructions sees it.
AssembleContext(workspaceFiles) == AssembleToEnd(AssembleCall(workspaceFiles))

(***************************************************************************)
(* The file lists the loop is run on: files of one short path whose blocks *)
(* have lengths around the budget and its half.                            *)
(***************************************************************************)
AsmPath == << <<"a", "py">> >>

\* A scanned file whose formatted block has the given length.
FileOfBlockLength(n) ==
    [path |-> AsmPath, name |-> <<"a", "py">>,
     content |->
        [text |-> <<>>,
         pad |-> n - FormatFileContext(
                        [path |-> AsmPath, content |-> NoContent]).length]]

AsmBlockLengths ==
    { 30, MAX_CONTEXT_LENGTH \div 2 - 1, MAX_CONTEXT_LENGTH \div 2,
      MAX_CONTEXT_LENGTH - 1, MAX_CONTEXT_LENGTH, 2 * MAX_CONTEXT_LENGTH }

AsmFileLists == BoundedSeq({FileOfBlockLength(n) : n \in AsmBlockLengths}, MaxAsmFiles)

AsmInit == \E fs \in AsmFileLists : asm = AssembleCall(fs)

AssembleTurn ==
    /\ asm.pc = "loop"
    /\ asm' = AssembleStep(asm)
    /\ UNCHANGED <<fn, md, scan, runs, host, panel>>

InitAssemble ==
    AsmInit /\ fn = Idle /\ md = Idle /\ scan = Idle /\ runs = Idle /\ host = Idle /\ panel = Idle
NextAssemble == AssembleTurn
SpecAssemble == InitAssemble /\ [][NextAssemble]_vars

(***************************************************************************)
(* Claims about the prompt assembly.                                       *)
(***************************************************************************)
\* C6: after each step of the loop and at its end, the assembled text is
\* strictly shorter than the budget and the included-file count is at most
\* the number of input files.
C6_UnderBudget ==
    asm.pc # "idle" =>
        /\ StringLength(asm.workspaceContext) < MAX_CONTEXT_LENGTH
        /\ asm.includedFiles <= Len(asm.files)

\* Two files whose blocks fill the budget to one character below it.
C6_Witness ==
    /\ asm.pc = "done"
    /\ asm.includedFiles = 2
    /\ StringLength(asm.workspaceContext) = MAX_CONTEXT_LENGTH - 1

\* The length of the text a file is formatted to, from the template.
BlockLengthOf(file) ==
    17 + PathLength(file.path) + ContentLength(file.content)

RECURSIVE PrefixLength(_, _)
\* The summed block length of the first k files.
PrefixLength(files, k) ==
    IF k = 0 THEN 0 ELSE PrefixLength(files, k - 1) + BlockLengthOf(files[k])

\* The length of the longest prefix whose blocks stay below the budget.
LongestFittingPrefix(files) ==
    CHOOSE k \in 0..Len(files) :
        /\ PrefixLength(files, k) < MAX_CONTEXT_LENGTH
        /\ \A j \in (k + 1)..Len(files) : PrefixLength(files, j) >= MAX_CONTEXT_LENGTH

\* C7: at the end of the loop the included files are exactly the longest
\* prefix of the input, in input order, whose blocks have a cumulative length
\* strictly below the budget: the first file that does not fit ends the loop,
\* and when the first file does not fit the text is empty and the count 0.
C7_GreedyPrefix ==
    asm.pc = "done" =>
        LET k == LongestFittingPrefix(asm.files)
        IN  /\ asm.includedFiles = k
            /\ Len(asm.workspaceContext) = k
            /\ \A i \in 1..k :
                 /\ asm.workspaceContext[i].path = asm.files[i].path
                 /\ asm.workspaceContext[i].content = asm.files[i].content

\* The second file does not fit and ends the loop although the third, left
\* out, would have fitted after the first.
C7_Witness ==
    /\ asm.pc = "done"
    /\ Len(asm.files) = 3
    /\ asm.includedFiles = 1
    /\ StringLength(asm.workspaceContext) + BlockLengthOf(asm.files[3])
         < MAX_CONTEXT_LENGTH

(***************************************************************************)
(* extractSdkName (lines 79-100), on messages as sequences of characters.  *)
(***************************************************************************)
sdkNames ==
    << <<"s", "e", "n", "d", "g", "r", "i", "d">>,
       <<"s", "t", "r", "i", "p", "e">>,
       <<"t", "w", "i", "l", "i", "o">>,
       <<"a", "w", "s">>,
       <<"m", "a", "i", "l", "g", "u", "n">>,
       <<"f", "i", "r", "e", "b", "a", "s", "e">> >>

\* String.prototype.includes
Includes(s, sub) == \E i \in 1..(Len(s) + 1) : StartsWithAt(s, i, sub)

\* The class \w, on lower-cased text.
IsWordChar(c) ==
    \/ \E k \in DOMAIN LowerCase : LowerCase[k] = c
    \/ c \in {"0", "1", "2", "3", "4", "5", "6", "7", "8", "9", "_"}

Keywords == {<<"g", "e", "n", "e", "r", "a", "t", "e">>, <<"c", "r", "e", "a", "t", "e">>}

RECURSIVE WordRun(_, _)
\* The longest run of word characters of s from position i.
WordRun(s, i) ==
    IF i <= Len(s) /\ IsWordChar(s[i]) THEN <<s[i]>> \o WordRun(s, i + 1) ELSE <<>>

RECURSIVE SkipSpacesFrom(_, _)
\* The first position from i that holds no whitespace.
SkipSpacesFrom(s, i) ==
    IF i <= Len(s) /\ IsWhitespace(s[i]) THEN SkipSpacesFrom(s, i + 1) ELSE i

\* Whether /(?:generate|create)\s+(\w+)/ matches at position i with keyword kw.
KeywordMatchesAt(s, i, kw) ==
    /\ StartsWithAt(s, i, kw)
    /\ SkipSpacesFrom(s, i + Len(kw)) > i + Len(kw)
    /\ WordRun(s, SkipSpacesFrom(s, i + Len(kw))) # <<>>

\* lowerMsg.match(...): the leftmost match and its group 1.
KeywordMatch(s) ==
    IF \E i \in 1..Len(s), kw \in Keywords : KeywordMatchesAt(s, i, kw)
    THEN LET i == CHOOSE i \in 1..Len(s) :
                    /\ \E kw \in Keywords : KeywordMatchesAt(s, i, kw)
                    /\ \A h \in 1..(i - 1), kw \in Keywords : ~KeywordMatchesAt(s, h, kw)
             kw == CHOOSE kw \in Keywords : KeywordMatchesAt(s, i, kw)
         IN  [found |-> TRUE, group |-> WordRun(s, SkipSpacesFrom(s, i + Len(kw)))]
    ELSE [found |-> FALSE, group |-> <<>>]

extractSdkName(message) ==
    LET lowerMsg == ToLowerCase(message)
    IN  IF \E k \in DOMAIN sdkNames : Includes(lowerMsg, sdkNames[k])
        THEN sdkNames[CHOOSE k \in DOMAIN sdkNames :
                        /\ Includes(lowerMsg, sdkNames[k])
                        /\ \A h \in 1..(k - 1) : ~Includes(lowerMsg, sdkNames[h])]
        ELSE IF KeywordMatch(lowerMsg).found THEN KeywordMatch(lowerMsg).group
        ELSE <<"s", "d", "k">>

(***************************************************************************)
(* JavaScript values as the orchestrator reads them: undefined, null,      *)
(* strings, numbers, arrays and objects with their properties.             *)
(***************************************************************************)
Undefined == [t |-> "undefined"]
Null == [t |-> "null"]
StringValue(s) == [t |-> "string", s |-> s]
NumberValue(n) == [t |-> "number", n |-> n]
ArrayValue(items) == [t |-> "array", items |-> items]
ObjectValue(props) == [t |-> "object", props |-> props]

IsNullish(v) == v.t \in {"undefined", "null"}

\* v?.[key] for a string key: undefined on a nullish value or a missing property.
OptionalProperty(v, key) ==
    IF v.t = "object" /\ key \in DOMAIN v.props THEN v.props[key] ELSE Undefined

\* v?.[0]
OptionalFirst(v) ==
    IF v.t = "array" /\ v.items # <<>> THEN v.items[1] ELSE Undefined

\* data.choices?.[0]?.message?.content (lines 23 and 348)
ChoiceContent(data) ==
    OptionalProperty(
        OptionalProperty(OptionalFirst(OptionalProperty(data, "choices")), "message"),
        "content")

\* !content
IsUndefinedOnly(v) == v.t = "undefined"
IsFalsy(v) ==
    \/ IsNullish(v)
    \/ (v.t = "string" /\ v.s = <<>>)
    \/ (v.t = "number" /\ v.n = 0)

\* JSON.stringify: undefined has no JSON text, every other value of the model
\* has one.
JsonStringify(v) ==
    IF v.t = "undefined" THEN Undefined ELSE [t |-> "json", of |-> v]

\* JSON.parse: a JSON text gives back its value, anything else (undefined is
\* read as the text "undefined") is a syntax error.
JsonParse(text) ==
    IF text.t = "json"
    THEN [ok |-> TRUE, value |-> text.of]
    ELSE [ok |-> FALSE, message |-> <<"\"undefined\" is not valid JSON">>]

(***************************************************************************)
(* createSdkUtilFile (lines 11-72) with callAiApi (107-135),               *)
(* createFileWithCode (199-218) and the request of                         *)
(* getIntegrationInstructions (311-366).  A run goes from one await to the *)
(* next in one step; runs interleave at their awaits.  What the network,   *)
(* the file system and the editor answer is drawn at the step that         *)
(* receives the answer.  The scan of the workspace and the prompt assembly *)
(* are taken in one step each here; their own steps are those of SpecScan  *)
(* and SpecAssemble.                                                       *)
(***************************************************************************)
Runs == 1..NumRuns

Python == <<"p", "y", "t", "h", "o", "n">>

UserMessages ==
    { <<"u", "s", "e", " ", "A", "W", "S">>,
      <<"C", "r", "e", "a", "t", "e", " ", " ", "m", "y", "-", "a", "p", "i">>,
      <<"h", "i">> }

\* { choices: [ { message: { content } } ] }
Completion(content) ==
    ObjectValue([choices |->
        ArrayValue(<< ObjectValue([message |-> ObjectValue([content |-> content])]) >>)])

EmptyObject == ObjectValue(<<>>)

GeneratedContents ==
    { <<"Here", NL, Fence, "python", NL, "import aws", NL, Fence, NL>>,
      <<" ", "x = 1", NL>> }

\* What response.data can be.
ResponseDatas ==
    { Undefined, Null, StringValue(<<"<html>">>), EmptyObject,
      ObjectValue([choices |-> ArrayValue(<<>>)]),
      ObjectValue([choices |-> ArrayValue(<<EmptyObject>>)]),
      ObjectValue([choices |-> ArrayValue(<<ObjectValue([message |-> EmptyObject])>>)]),
      Completion(StringValue(<<>>)),
      Completion(NumberValue(7)) }
    \cup {Completion(StringValue(c)) : c \in GeneratedContents}

RequestError(code, message) == [t |-> "error", code |-> code, message |-> message]
Response(data) == [t |-> "response", data |-> data]

NetworkError == RequestError(StringValue(<<"ERR_NETWORK">>), <<"Network Error">>)
TimeoutError ==
    RequestError(StringValue(<<"ECONNABORTED">>), <<"timeout of 3000000ms exceeded">>)
PlainError == RequestError(Undefined, <<"socket hang up">>)

\* What axios.post of callAiApi settles with.
ApiOutcomes == {NetworkError} \cup {Response(d) : d \in ResponseDatas}

\* What axios.post of getIntegrationInstructions settles with.
InstructionOutcomes ==
    { TimeoutError, NetworkError, PlainError,
      Response(Null), Response(EmptyObject),
      Response(Completion(StringValue(<<"Step 1">>))) }

NoOutcome == [t |-> "none"]
NoResult == [kind |-> "none", message |-> <<>>]

IdleRun ==
    [pc |-> "idle", sdkName |-> <<>>, api |-> NoOutcome, code |-> <<>>,
     filename |-> <<>>, effects |-> {}, scanned |-> 0, included |-> 0,
     instr |-> NoOutcome, result |-> NoResult]

\* catch (error) of lines 69-71: the run ends with the wrapped error.
Thrown(run, message) ==
    [run EXCEPT !.pc = "done",
                !.result = [kind |-> "thrown",
                            message |-> <<"Failed to create SDK file: ">> \o message]]

Failure(message) == [ok |-> FALSE, message |-> message]

\* Lines 17-39 once axios.post has settled: what callAiApi gives, the parse,
\* the content, the code and the file name, the workspace folder.
PrepareFile(run, outcome, workspaceFolders) ==
    IF outcome.t = "error"
    THEN Failure(<<"API call failed: ">> \o outcome.message)
    ELSE LET parsed == JsonParse(JsonStringify(outcome.data))
         IN  IF ~parsed.ok THEN Failure(parsed.message)
             ELSE IF IsNullish(parsed.value)
             THEN Failure(<<"Cannot read properties of null (reading 'choices')">>)
             ELSE LET content == ChoiceContent(parsed.value)
                  IN  IF IsFalsy(content)
                      THEN Failure(<<"No content found in AI response">>)
                      ELSE IF content.t # "string"
                      THEN Failure(<<"content.matchAll is not a function">>)
                      ELSE IF workspaceFolders = <<>>
                      THEN Failure(<<"No workspace folder open. Please open a folder first.">>)
                      ELSE [ok |-> TRUE,
                            code |-> extractCodeFromMarkdown(content.s, "python"),
                            filename |-> generateFilename(run.sdkName, Python)]

\* path.join(workspaceFolder.uri.fsPath, 'utils', filename), as one string.
FilePath(workspaceFolders, filename) ==
    Str(<<workspaceFolders[1], "/", "utils", "/">> \o filename)

\* writeFile: the file holds the data, whatever it held.
WriteFileKeepExisting(files, name, data) ==
    IF \E f \in files : f.name = name THEN files
    ELSE files \cup {[name |-> name, data |-> data]}
WriteFile(files, name, data) ==
    {f \in files : f.name # name} \cup {[name |-> name, data |-> data]}

RECURSIVE SplitOnDots(_, _)
\* The dot-separated segments of a file name given as fragments.
SplitOnDots(fragments, segment) ==
    IF fragments = <<>> THEN <<segment>>
    ELSE IF Head(fragments) = "."
         THEN <<segment>> \o SplitOnDots(Tail(fragments), "")
         ELSE SplitOnDots(Tail(fragments), segment \o Head(fragments))

RECURSIVE ListingOf(_)
\* The entries of the utils directory, in one of the orders readdir may give.
ListingOf(files) ==
    IF files = {} THEN <<>>
    ELSE LET f == CHOOSE f \in files : TRUE
         IN  << [name |-> SplitOnDots(f.name, ""), kind |-> "file", child |-> 0,
                 size |-> SumLen(f.data), fault |-> "none",
                 content |-> [text |-> f.data, pad |-> 0]] >>
             \o ListingOf(files \ {f})

\* The workspace folder as scanWorkspace finds it: a source file that was
\* there before, and the utils directory once it exists.
HostTree(h) ==
    [root |-> 1,
     unlistable |-> {},
     dirs |-> << <<FileEntry(<<"main", "py">>, 50, "none")>> \o
                 (IF h.utils = "dir" THEN <<DirEntry(<<"utils">>, 2)>> ELSE <<>>),
                 ListingOf(h.files) >>]

\* error.code === 'ECONNABORTED' (line 360)
IsTimeoutOtherCode(error) == error.code = StringValue(<<"ETIMEDOUT">>)
IsTimeout(error) == error.code = StringValue(<<"ECONNABORTED">>)

Acknowledgment == "File created successfully!\n\n"
TimeoutNotice ==
    "Integration instruction request timed out. Your workspace might be too large."
GenericNotice == "Couldn't fetch integration instructions: "

\* catch (error) of lines 357-365.
InstructionsOnError(sdkName, error) ==
    IF IsTimeout(error)
    THEN <<Acknowledgment, TimeoutNotice, "\n\nPlease refer to the ", Str(sdkName),
           " documentation or try with a smaller workspace.">>
    ELSE <<Acknowledgment, GenericNotice>> \o error.message
         \o <<"\n\nPlease refer to the ", Str(sdkName), " documentation.">>

\* Lines 346-365 once axios.post has settled: the string
\* getIntegrationInstructions returns.
InstructionsFor(sdkName, outcome) ==
    IF outcome.t = "error" THEN InstructionsOnError(sdkName, outcome)
    ELSE IF IsNullish(outcome.data)
    THEN InstructionsOnError(sdkName,
            RequestError(Undefined,
                <<"Cannot read properties of null (reading 'choices')">>))
    ELSE LET content == ChoiceContent(outcome.data)
         IN  IF IsFalsy(content)
             THEN <<Acknowledgment,
                    "Integration instructions not available. Please refer to the ",
                    Str(sdkName), " documentation.">>
             ELSE <<"HOW TO INTEGRATE:\n\n">> \o content.s

\* Lines 65-67.
SuccessMessage(filePath, integrationInstructions, scanned) ==
    <<"Successfully created: ", filePath, "\n\n">> \o integrationInstructions
    \o <<"\n\nAnalyzed ", ToString(scanned), " files from your workspace for context.">>

(***************************************************************************)
(* The steps of a run.                                                     *)
(***************************************************************************)
Others == <<fn, md, scan, asm>>

\* createSdkUtilFile(userMessage) up to its first await: the SDK name, then
\* the request of callAiApi.
Call(r, userMessage) ==
    runs' = [runs EXCEPT ![r] =
                [@ EXCEPT !.pc = "awaitApi", !.sdkName = extractSdkName(userMessage)]]

\* createSdkUtilFile is called.
Start(r) ==
    /\ runs[r].pc = "idle"
    /\ \E message \in UserMessages : Call(r, message)
    /\ UNCHANGED <<host, Others>>

\* The request of callAiApi settles; up to the mkdir of createFileWithCode.
ApiSettles(r) ==
    /\ runs[r].pc = "awaitApi"
    /\ \E outcome \in ApiOutcomes :
         LET run == [runs[r] EXCEPT !.api = outcome]
             prepared == PrepareFile(run, outcome, host.workspaceFolders)
         IN  runs' = [runs EXCEPT ![r] =
                IF prepared.ok
                THEN [run EXCEPT !.pc = "awaitMkdir",
                                 !.code = prepared.code,
                                 !.filename = prepared.filename]
                ELSE Thrown(run, prepared.message)]
    /\ UNCHANGED <<host, Others>>

\* fs.mkdir(dirPath, { recursive: true }) settles (line 205).
MkdirSettles(r) ==
    /\ runs[r].pc = "awaitMkdir"
    /\ \/ /\ host' = [host EXCEPT !.utils = "dir"]
          /\ runs' = [runs EXCEPT ![r] =
                [@ EXCEPT !.pc = "awaitWrite",
                          !.effects = @ \cup {"mkdir"} \cup
                                (IF host.utils = "absent" THEN {"createdDir"} ELSE {})]]
       \/ /\ host.utils = "absent"
          /\ runs' = [runs EXCEPT ![r] =
                Thrown(@, <<"File creation failed: ", "EACCES: permission denied, mkdir">>)]
          /\ UNCHANGED host
    /\ UNCHANGED Others

\* fs.writeFile(filePath, code, 'utf-8') settles (line 211): written, refused
\* before the file is opened, or failed after the file was opened and cut.
WriteSettles(r) ==
    /\ runs[r].pc = "awaitWrite"
    /\ \/ /\ host' = [host EXCEPT !.files = WriteFile(@, runs[r].filename, runs[r].code)]
          /\ runs' = [runs EXCEPT ![r] =
                [@ EXCEPT !.pc = "awaitOpen", !.effects = @ \cup {"writeFile"}]]
       \/ /\ runs' = [runs EXCEPT ![r] =
                Thrown(@, <<"File creation failed: ", "EACCES: permission denied, open">>)]
          /\ UNCHANGED host
       \/ /\ host' = [host EXCEPT !.files = WriteFile(@, runs[r].filename, <<>>)]
          /\ runs' = [runs EXCEPT ![r] =
                Thrown([@ EXCEPT !.effects = @ \cup {"truncatedFile"}],
                       <<"File creation failed: ", "ENOSPC: no space left on device, write">>)]
    /\ UNCHANGED Others

\* vscode.workspace.openTextDocument(filePath) settles (line 50).
OpenSettles(r) ==
    /\ runs[r].pc = "awaitOpen"
    /\ \/ runs' = [runs EXCEPT ![r] = [@ EXCEPT !.pc = "awaitShow"]]
       \/ runs' = [runs EXCEPT ![r] = Thrown(@, <<"cannot open file">>)]
    /\ UNCHANGED <<host, Others>>

\* vscode.window.showTextDocument(doc) settles (line 51); scanWorkspace is called.
ShowSettles(r) ==
    /\ runs[r].pc = "awaitShow"
    /\ \/ runs' = [runs EXCEPT ![r] = [@ EXCEPT !.pc = "awaitScan"]]
       \/ runs' = [runs EXCEPT ![r] = Thrown(@, <<"Could NOT open editor">>)]
    /\ UNCHANGED <<host, Others>>

\* scanWorkspace settles (line 54); the prompt is assembled and the request of
\* getIntegrationInstructions is sent.
ScanSettles(r) ==
    /\ runs[r].pc = "awaitScan"
    /\ LET scanned == scanWorkspace(HostTree(host))
       IN  runs' = [runs EXCEPT ![r] =
              IF scanned.pc = "raised"
              THEN Thrown(@, <<"scan failed">>)
              ELSE [@ EXCEPT !.pc = "awaitInstructions",
                             !.scanned = Len(scanned.files),
                             !.included = AssembleContext(scanned.files).includedFiles]]
    /\ UNCHANGED <<host, Others>>

\* The request of getIntegrationInstructions settles; the run returns.
InstructionsSettle(r) ==
    /\ runs[r].pc = "awaitInstructions"
    /\ \E outcome \in InstructionOutcomes :
         runs' = [runs EXCEPT ![r] =
            [@ EXCEPT !.pc = "done",
                      !.instr = outcome,
                      !.result =
                         [kind |-> "returned",
                          message |->
                            SuccessMessage(
                                FilePath(host.workspaceFolders, runs[r].filename),
                                InstructionsFor(runs[r].sdkName, outcome),
                                runs[r].scanned)]]]
    /\ UNCHANGED <<host, Others>>

HostInit ==
    \E folders \in {<<>>, <<"/ws">>}, utils \in {"absent", "dir"} :
        /\ (folders = <<>> => utils = "absent")
        /\ host = [workspaceFolders |-> folders, utils |-> utils, files |-> {}]

Init ==
    /\ runs = [r \in Runs |-> IdleRun]
    /\ HostInit
    /\ fn = Idle /\ md = Idle /\ scan = Idle /\ asm = Idle /\ panel = Idle

Next ==
    \E r \in Runs :
        \/ Start(r) /\ UNCHANGED panel
        \/ ApiSettles(r) /\ UNCHANGED panel
        \/ MkdirSettles(r) /\ UNCHANGED panel
        \/ WriteSettles(r) /\ UNCHANGED panel
        \/ OpenSettles(r) /\ UNCHANGED panel
        \/ ShowSettles(r) /\ UNCHANGED panel
        \/ ScanSettles(r) /\ UNCHANGED panel
        \/ InstructionsSettle(r) /\ UNCHANGED panel

Spec == Init /\ [][Next]_vars

(***************************************************************************)
(* Claims about createSdkUtilFile.                                         *)
(***************************************************************************)
Contains(message, fragment) == \E i \in 1..Len(message) : message[i] = fragment

ErrorPrefix == "Failed to create SDK file: "

EndsInWrappedError(run) ==
    /\ run.pc = "done"
    /\ run.result.kind = "thrown"
    /\ run.result.message # <<>>
    /\ run.result.message[1] = ErrorPrefix

\* choices[0].message.content of the response is absent or the empty string.
ContentAbsentOrEmpty(data) ==
    \/ data.t # "object"
    \/ "choices" \notin DOMAIN data.props
    \/ data.props.choices.t # "array"
    \/ data.props.choices.items = <<>>
    \/ LET first == data.props.choices.items[1]
       IN  \/ first.t # "object"
           \/ "message" \notin DOMAIN first.props
           \/ first.props.message.t # "object"
           \/ "content" \notin DOMAIN first.props.message.props
           \/ first.props.message.props.content = StringValue(<<>>)

\* A step before the file write fails: the request throws, the response has
\* no JSON text to parse, the content is absent or empty, or no folder is open.
FailsBeforeWrite(run) ==
    /\ run.api # NoOutcome
    /\ \/ run.api.t = "error"
       \/ run.api.t = "response" /\ run.api.data = Undefined
       \/ run.api.t = "response" /\ ContentAbsentOrEmpty(run.api.data)
       \/ host.workspaceFolders = <<>>

\* C1: a run in which a step before the file write fails ends with one error
\* whose message starts with "Failed to create SDK file:", and has created no
\* directory and written no file.
C1_FailureBeforeWrite ==
    \A r \in Runs :
        FailsBeforeWrite(runs[r]) =>
            /\ EndsInWrappedError(runs[r])
            /\ runs[r].effects = {}

\* The end-to-end scenario: the code-generation request throws a transport
\* error with a workspace folder open.
C1_Witness ==
    \E r \in Runs :
        /\ runs[r].api = NetworkError
        /\ runs[r].pc = "done"
        /\ host.workspaceFolders # <<>>

\* C2: once the file is written and opened, a failing integration request
\* does not make the run fail: it returns a message with the created-file
\* confirmation and the "File created successfully" acknowledgment, with the
\* timeout notice exactly when the error code is ECONNABORTED and the generic
\* notice for every other failure of the request.
C2_DegradedSuccess ==
    \A r \in Runs :
        (runs[r].pc = "done" /\ runs[r].instr.t = "error") =>
            LET message == runs[r].result.message
                timedOut == runs[r].instr.code = StringValue(<<"ECONNABORTED">>)
            IN  /\ runs[r].result.kind = "returned"
                /\ "writeFile" \in runs[r].effects
                /\ message[1] = "Successfully created: "
                /\ message[2] = FilePath(host.workspaceFolders, runs[r].filename)
                /\ Contains(message, Acknowledgment)
                /\ Contains(message, TimeoutNotice) <=> timedOut
                /\ Contains(message, GenericNotice) <=> ~timedOut

\* The end-to-end scenario: the file is written and the integration request
\* times out.
C2_Witness ==
    \E r \in Runs :
        /\ runs[r].pc = "done"
        /\ runs[r].instr = TimeoutError
        /\ \E f \in host.files : f.name = runs[r].filename /\ f.data = runs[r].code

\* C10: no partial commit: whatever step fails, a run that ends with the
\* wrapped error has left no utility file and no created utils directory on
\* disk; once the file is written the run ends with a success message.
C10_NoPartialCommit ==
    \A r \in Runs :
        EndsInWrappedError(runs[r]) =>
            runs[r].effects \cap {"createdDir", "writeFile", "truncatedFile"} = {}

\* What remains true of the code: a run that ends with the wrapped error
\* before createFileWithCode was called has changed nothing on disk, and a run
\* whose file was written, opened and shown ends with a success message.
C10_HoldsOutsideFileSteps ==
    \A r \in Runs :
        /\ (EndsInWrappedError(runs[r]) /\ "mkdir" \notin runs[r].effects)
              => runs[r].effects = {}
        /\ (runs[r].pc = "done" /\ runs[r].scanned > 0)
              => runs[r].result.kind = "returned"

(***************************************************************************)
(* The chat panel (extension.js): the webview script (lines 164-206) and   *)
(* the host's handler of its messages (lines 17-25) with processMessage    *)
(* (lines 31-69).  Messages posted in either direction are delivered in    *)
(* the order they were posted.  Every message the host receives starts a   *)
(* handler of its own; handler h makes the h-th call of createSdkUtilFile. *)
(***************************************************************************)
Handlers == 1..MaxSends

\* What the user may have typed when sendMessage runs.
TypedInputs ==
    { <<" ", " ">>,
      <<" ", "u", "s", "e", " ", "A", "W", "S">>,
      <<"h", "i", " ">> }

StepOne == "Step 1/3: Generating SDK utility code..."
StepTwo == "Step 2/3: Scanning your workspace files..."
StepThree == "Step 3/3: Getting detailed integration instructions..."

\* panel.webview.postMessage({ command: 'receiveMessage', text })
PostToWebview(p, text) ==
    [p EXCEPT !.toWebview = Append(@, [command |-> "receiveMessage", text |-> text])]

\* The handlers that have not been started yet.
FreeHandlers(p) == {h \in Handlers : p.handlers[h].pc = "none"}

\* Lines 56-68 once createSdkUtilFile has settled: the result is posted, or
\* the error caught and posted; while it is pending nothing happens.
Resume(p, h, run) ==
    IF run.pc # "done" THEN p
    ELSE [PostToWebview(p,
             IF run.result.kind = "returned"
             THEN Str(run.result.message)
             ELSE "Error: " \o Str(run.result.message))
          EXCEPT !.handlers[h].pc = "finished"]

\* sendMessage() of the webview script (lines 178-189).
sendMessage(typed) ==
    LET text == Trim(typed)
    IN  /\ panel' =
              IF text # <<>>
              THEN [panel EXCEPT
                      !.chat.user = @ + 1,
                      !.toHost = Append(@, [command |-> "sendMessage", text |-> text]),
                      !.disabled = TRUE]
              ELSE panel
        /\ UNCHANGED <<runs, host, Others>>

\* A click on the send button (line 191); a disabled button takes no click.
ClickSend ==
    /\ panel.chat.user < MaxSends
    /\ ~panel.disabled
    /\ \E typed \in TypedInputs : sendMessage(typed)

\* Enter pressed in the input (lines 193-197).
PressEnter ==
    /\ panel.chat.user < MaxSends
    /\ \E typed \in TypedInputs : sendMessage(typed)

\* message.command === 'receiveMessage' (line 201)
IsFinalReply(message) ==
    /\ message.command = "receiveMessage"
    /\ message.text \notin {StepOne, StepTwo, StepThree}
IsReceiveMessage(message) == message.command = "receiveMessage"

\* The webview's message listener (lines 199-205).
WebviewReceives ==
    /\ panel.toWebview # <<>>
    /\ panel' =
          IF IsReceiveMessage(Head(panel.toWebview))
          THEN [panel EXCEPT !.toWebview = Tail(@),
                             !.chat.bot = @ + 1,
                             !.disabled = FALSE]
          ELSE [panel EXCEPT !.toWebview = Tail(@)]
    /\ UNCHANGED <<runs, host, Others>>

\* onDidReceiveMessage (lines 17-22) and processMessage up to its first
\* timer (lines 31-41).
HostReceives ==
    /\ panel.toHost # <<>>
    /\ FreeHandlers(panel) # {}
    /\ LET message == Head(panel.toHost)
           h == CHOOSE h \in FreeHandlers(panel) : \A k \in FreeHandlers(panel) : h <= k
       IN  panel' =
              IF message.command = "sendMessage"
              THEN [PostToWebview([panel EXCEPT !.toHost = Tail(@)], StepOne)
                    EXCEPT !.handlers[h] = [pc |-> "firstDelay", message |-> message.text]]
              ELSE [panel EXCEPT !.toHost = Tail(@)]
    /\ UNCHANGED <<runs, host, Others>>

\* The first timer fires (lines 41-48).
FirstDelayEnds(h) ==
    /\ panel.handlers[h].pc = "firstDelay"
    /\ panel' = [PostToWebview(panel, StepTwo) EXCEPT !.handlers[h].pc = "secondDelay"]
    /\ UNCHANGED <<runs, host, Others>>

\* The second timer fires (lines 48-56): the third notice, then
\* createSdkUtilFile(message) up to its first await.
SecondDelayEnds(h) ==
    /\ panel.handlers[h].pc = "secondDelay"
    /\ panel' = [PostToWebview(panel, StepThree) EXCEPT !.handlers[h].pc = "awaitCreate"]
    /\ Call(h, panel.handlers[h].message)
    /\ UNCHANGED <<host, Others>>

PanelInit ==
    panel = [disabled |-> FALSE,
             chat |-> [user |-> 0, bot |-> 0],
             toHost |-> <<>>,
             toWebview |-> <<>>,
             handlers |-> [h \in Handlers |-> [pc |-> "none", message |-> <<>>]]]

InitPanel ==
    /\ PanelInit
    /\ runs = [h \in Handlers |-> IdleRun]
    /\ HostInit
    /\ fn = Idle /\ md = Idle /\ scan = Idle /\ asm = Idle

NextPanel ==
    \/ ClickSend
    \/ PressEnter
    \/ WebviewReceives
    \/ HostReceives
    \/ \E h \in Handlers :
        \/ FirstDelayEnds(h)
        \/ SecondDelayEnds(h)
        \/ ApiSettles(h) /\ panel' = Resume(panel, h, runs'[h])
        \/ MkdirSettles(h) /\ panel' = Resume(panel, h, runs'[h])
        \/ WriteSettles(h) /\ panel' = Resume(panel, h, runs'[h])
        \/ OpenSettles(h) /\ panel' = Resume(panel, h, runs'[h])
        \/ ShowSettles(h) /\ panel' = Resume(panel, h, runs'[h])
        \/ ScanSettles(h) /\ panel' = Resume(panel, h, runs'[h])
        \/ InstructionsSettle(h) /\ panel' = Resume(panel, h, runs'[h])

SpecPanel == InitPanel /\ [][NextPanel]_vars

(***************************************************************************)
(* Claims about concurrent calls of createSdkUtilFile from one panel.      *)
(***************************************************************************)
Calls == DOMAIN runs

\* The call has computed its output path and has not failed before the write.
HasPath(r) == runs[r].filename # <<>>

SamePath(r, q) == HasPath(r) /\ HasPath(q) /\ runs[r].filename = runs[q].filename

\* The step is the write of call r going through.
Writes(r) == runs[r].pc = "awaitWrite" /\ runs'[r].pc = "awaitOpen"

\* The step is call r leaving its write, written or not.
LeavesWrite(r) == runs[r].pc = "awaitWrite" /\ runs'[r].pc # "awaitWrite"

ReturnedSuccess(r) == runs[r].pc = "done" /\ runs[r].result.kind = "returned"

\* A pending write can settle whatever the other calls are doing.
C11_WriteUnguarded ==
    \A r \in Calls : runs[r].pc = "awaitWrite" => ENABLED WriteSettles(r)

\* A write that goes through leaves the file holding that call's code and
\* nothing else at its path; a step that is no write leaves the files alone.
C11_LastWriteWins ==
    /\ \A r \in Calls :
         Writes(r) =>
            /\ [name |-> runs[r].filename, data |-> runs[r].code] \in host'.files
            /\ \A f \in host'.files : f.name = runs[r].filename => f.data = runs[r].code
            /\ \A f \in host'.files : f.name # runs[r].filename => f \in host.files
    /\ (\A r \in Calls : ~LeavesWrite(r)) => host'.files = host.files

\* Calls that computed the same path and returned name that one path in
\* their success messages, and the file at it holds the code of one of the
\* calls that wrote to it.
C11_BothSucceed ==
    \A r, q \in Calls :
        (r # q /\ SamePath(r, q) /\ ReturnedSuccess(r) /\ ReturnedSuccess(q)) =>
            /\ runs[r].result.message[1] = "Successfully created: "
            /\ runs[q].result.message[1] = "Successfully created: "
            /\ runs[r].result.message[2] = runs[q].result.message[2]
            /\ runs[r].result.message[2] = FilePath(host.workspaceFolders, runs[r].filename)
            /\ \E f \in host.files :
                 /\ f.name = runs[r].filename
                 /\ \E w \in Calls :
                      /\ runs[w].filename = f.name
                      /\ runs[w].effects \cap {"writeFile", "truncatedFile"} # {}
                      /\ f.data \in {runs[w].code, <<>>}

InFlight(r) == runs[r].pc \notin {"idle", "done"}

\* The step is the webview taking a message of the host.
Delivers == Len(panel'.toWebview) < Len(panel.toWebview)

\* The step is the host starting the handler h.
StartsHandler(h) == panel.handlers[h].pc = "none" /\ panel'.handlers[h].pc # "none"

\* Every message received from the host enables the button again, and the
\* first message a handler posts is the progress notice, posted while
\* createSdkUtilFile has not been called for it.
C12_FirstNoticeEnables ==
    /\ Delivers => ~panel'.disabled
    /\ \A h \in Handlers :
         StartsHandler(h) =>
            /\ panel'.toWebview = Append(panel.toWebview,
                                         [command |-> "receiveMessage", text |-> StepOne])
            /\ runs'[h].pc = "idle"

\* The Enter key sends whatever the state of the button.
C12_EnterUnguarded == panel.chat.user < MaxSends => ENABLED PressEnter

\* The host starts a handler for a message whatever the earlier handlers and
\* their calls are doing.
C12_HandlerUnserialized == panel.toHost # <<>> => ENABLED HostReceives

\* C12: nothing prevents a second concurrent invocation from one panel: the
\* button disabled by a send is enabled again by the first message received
\* from the host, a progress notice posted before createSdkUtilFile is
\* called; the Enter key does not check the button; the host's handler does
\* not serialize the messages.
C12_NothingPreventsSecondCall ==
    /\ [](C12_EnterUnguarded /\ C12_HandlerUnserialized)
    /\ [][C12_FirstNoticeEnables]_vars

\* Two calls of createSdkUtilFile of the one panel are in flight at once.
C12_Witness ==
    \E r, q \in Handlers : r # q /\ InFlight(r) /\ InFlight(q)

====
